---- MODULE Spec2Model ----
(***************************************************************************)
(* Model of lib/v3/smithy-client.js: the entry point that wraps the Smithy *)
(* Client constructor, the plugin that registers two middleware, the       *)
(* header middleware, the attribute middleware and addAwsAttributes.       *)
(*                                                                         *)
(* The host collaborators (middleware stack, next-stage handlers, region   *)
(* provider, shim.getSegment, segment.addAttribute) are environment: their *)
(* outcomes are drawn nondeterministically from small sets.                *)
(***************************************************************************)
EXTENDS Integers, Sequences, FiniteSets, TLC

VARIABLES
  loaded,       \* instrumentSmithyClient has run
  clientType,   \* what smithyClientExport.Client was when it ran
  wrapped,      \* shim.wrapClass was called on Client
  wrapOpts,     \* the options passed to shim.wrapClass
  entryLog,     \* shim.logger.debug calls of the entry point
  applyState,   \* applyToStack: "idle", "done" or "threw"
  stackBefore,  \* the client stack as applyToStack received it
  stack,        \* the client stack (sequence of registrations)
  requests,     \* middleware invocations started so far
  hpc,          \* wrappedHeaderMw: "idle", "awaitNext", "returned", "threw"
  hOrig,        \* args as wrappedHeaderMw received them
  hArgs,        \* args (mutated in place by wrappedHeaderMw)
  hNextArgs,    \* args as the next handler saw them when called
  hNextCalls,   \* calls of next made by wrappedHeaderMw
  hNextOut,     \* what the next handler produced
  hReturned,    \* what wrappedHeaderMw returned
  hErr,         \* what wrappedHeaderMw threw
  apc,          \* wrappedMiddleware: "idle", "awaitRegion", "awaitNext", "returned", "threw"
  aConfig,      \* config bound into attrMiddleware
  aContext,     \* context passed to attrMiddleware
  aRegionOut,   \* outcome of config.region()
  region,       \* the local variable region
  aNextCalls,   \* calls of next made by wrappedMiddleware
  aNextOut,     \* the result the next handler resolved with
  aNextErr,     \* the error the next handler rejected with
  aSeg,         \* how shim.getSegment / segment.addAttribute behaved
  segCalls,     \* completed segment.addAttribute calls, in order
  aLog,         \* shim.logger.debug calls of this invocation
  aReturned,    \* what wrappedMiddleware returned
  aErr,         \* what wrappedMiddleware threw
  trace         \* events of this invocation of wrappedMiddleware, in order

entryVars == <<loaded, clientType, wrapped, wrapOpts, entryLog>>
stackVars == <<applyState, stackBefore, stack>>
hVars == <<hpc, hOrig, hArgs, hNextArgs, hNextCalls, hNextOut, hReturned, hErr>>
aVars == <<apc, aConfig, aContext, aRegionOut, region, aNextCalls, aNextOut,
           aNextErr, aSeg, segCalls, aLog, aReturned, aErr, trace>>
vars == <<entryVars, stackVars, requests, hVars, aVars>>

(***************************************************************************)
(* Bounds and value domains                                                *)
(***************************************************************************)
MaxRequests == 2

UNKNOWN == "Unknown"
Undefined == "<undefined>"
NoError == "<none>"

DisableDtKey == "x-new-relic-disable-dt"
RequestIdKey == "x-amzn-requestid"
RequestIdKeyMixed == "X-Amzn-RequestId"

ReqKeys == {DisableDtKey, "host"}
ReqVals == {Undefined, "false", "aws.example"}
RespKeys == {RequestIdKey, RequestIdKeyMixed}
RespVals == {Undefined, "", "abc-123"}
StrVals(s) == {Undefined, "", s}

NoReqHeaders == [k \in ReqKeys |-> Undefined]
NoRespHeaders == [k \in RespKeys |-> Undefined]

\* args handed to wrappedHeaderMw: well formed, or without request, or
\* with a request that has no headers object
HeaderArgs ==
  {[shape |-> "ok", headers |-> h] : h \in [ReqKeys -> ReqVals]}
    \cup {[shape |-> s, headers |-> NoReqHeaders] : s \in {"norequest", "noheaders"}}
NoArgs == [shape |-> "none", headers |-> NoReqHeaders]

HeaderResults == {"result-1", "result-2"}
NextErrors == {"Error:timeout", "Error:denied"}
RegionErrors == {"Error:region"}

\* results of the deserialize-stage next handler
Results ==
  {[shape |-> "full", headers |-> h] : h \in [RespKeys -> RespVals]}
    \cup {[shape |-> s, headers |-> NoRespHeaders] :
            s \in {"undefined", "nobody", "noheaders"}}
NoResult == [shape |-> "none", headers |-> NoRespHeaders]

Configs == {[serviceId |-> s] : s \in StrVals("DynamoDB")}
Contexts == {[commandName |-> c] : c \in StrVals("GetItem")}
NoConfig == [serviceId |-> Undefined]
NoContext == [commandName |-> Undefined]
RegionVals == StrVals("us-east-1")

\* shim.getSegment throws, returns nothing, or returns a segment whose
\* failAt-th addAttribute call throws (0: none does)
SegBehaviours ==
  {[lookup |-> l, failAt |-> 0] : l \in {"throws", "none"}}
    \cup {[lookup |-> "found", failAt |-> n] : n \in 0..4}
NoSeg == [lookup |-> "none", failAt |-> 0]

HostEntry == [name |-> "hostMiddleware", step |-> "build", priority |-> "normal"]
HostStacks == {<<>>, <<HostEntry>>}

ClientTypes == {"function", "undefined", "object"}

(***************************************************************************)
(* Helpers                                                                 *)
(***************************************************************************)
\* JavaScript truthiness of a string-or-undefined value
Truthy(v) == v # Undefined /\ v # ""

\* v ?? UNKNOWN: falls back only when v is undefined
OrUnknownNullish(v) == IF v = Undefined THEN UNKNOWN ELSE v

\* v || UNKNOWN
OrUnknown(v) == IF Truthy(v) THEN v ELSE UNKNOWN

\* looks the request id up under any casing of its name
RequestIdHeaderAnyCase(headers) ==
  IF Truthy(headers[RequestIdKey]) THEN headers[RequestIdKey]
  ELSE headers[RequestIdKeyMixed]

\* response.headers['x-amzn-requestid']: a property read by the exact key
RequestIdHeader(headers) == headers[RequestIdKey]

\* keeps only the injected header
SetHeaderDropOthers(headers) ==
  [k \in ReqKeys |-> IF k = DisableDtKey THEN "true" ELSE Undefined]

\* args.request.headers['x-new-relic-disable-dt'] = 'true'
SetHeader(headers) == [headers EXCEPT ![DisableDtKey] = "true"]

\* shim.isFunction
isFunction(t) == t = "function"

HeaderEntryAtBuild ==
  [name |-> "NewRelicHeader", step |-> "build", priority |-> "low"]

\* the options of the first clientStack.add
HeaderEntry ==
  [name |-> "NewRelicHeader", step |-> "finalizeRequest", priority |-> "low"]

\* the options of the second clientStack.add (no priority given)
DeserializeEntry ==
  [name |-> "NewRelicDeserialize", step |-> "deserialize", priority |-> Undefined]

WrapOptions == [post |-> "postClientConstructor", es6 |-> TRUE]
NoWrapOptions == [post |-> Undefined, es6 |-> FALSE]

Registered(name) == \E i \in 1..Len(stack) : stack[i].name = name

(***************************************************************************)
(* addAwsAttributes                                                        *)
(***************************************************************************)
AttrKey(k) ==
  CASE k = 1 -> "aws.operation"
    [] k = 2 -> "aws.requestId"
    [] k = 3 -> "aws.service"
    [] k = 4 -> "aws.region"

\* the value argument of the k-th segment.addAttribute call
AttrValue(k, result, config, reg, context) ==
  CASE k = 1 -> OrUnknown(context.commandName)
    [] k = 2 -> OrUnknown(RequestIdHeader(result.headers))
    [] k = 3 -> OrUnknown(config.serviceId)
    [] k = 4 -> OrUnknown(reg)

\* the k-th statement throws: reading response.headers[...] when the response
\* has no headers, or the segment's addAttribute itself
StatementThrows(k, result, seg) ==
  \/ k = 2 /\ result.shape = "noheaders"
  \/ seg.failAt = k

\* the statements before the segment is used throw: destructuring an
\* undefined result, reading response.body.req, shim.getSegment, or calling a
\* method of a missing segment
LookupThrows(result, seg) ==
  \/ result.shape \in {"undefined", "nobody"}
  \/ seg.lookup # "found"

\* the number of addAttribute calls that complete
Completed(result, seg) ==
  IF LookupThrows(result, seg) THEN 0
  ELSE IF \E k \in 1..4 : StatementThrows(k, result, seg)
       THEN (CHOOSE k \in 1..4 : /\ StatementThrows(k, result, seg)
                                 /\ \A j \in 1..(k - 1) : ~StatementThrows(j, result, seg)) - 1
       ELSE 4

\* without the try/catch: the first failure escapes
AddAwsAttributesNoCatch(result, config, reg, context, seg) ==
  LET n == Completed(result, seg) IN
  [calls |-> [k \in 1..n |-> <<AttrKey(k), AttrValue(k, result, config, reg, context)>>],
   logged |-> FALSE,
   thrown |-> IF n < 4 THEN "TypeError" ELSE NoError]

\* values computed first, written only when nothing failed
AddAwsAttributesAllOrNothing(result, config, reg, context, seg) ==
  LET n == Completed(result, seg) IN
  [calls |-> IF n < 4 THEN <<>>
             ELSE [k \in 1..4 |-> <<AttrKey(k), AttrValue(k, result, config, reg, context)>>],
   logged |-> n < 4,
   thrown |-> NoError]

\* addAwsAttributes: the completed addAttribute calls, whether the catch
\* block logged, and the exception that leaves the function (never one)
AddAwsAttributes(result, config, reg, context, seg) ==
  LET n == Completed(result, seg) IN
  [calls |-> [k \in 1..n |-> <<AttrKey(k), AttrValue(k, result, config, reg, context)>>],
   logged |-> n < 4,
   thrown |-> NoError]

(***************************************************************************)
(* Initial state: the module is not loaded, no client exists               *)
(***************************************************************************)
Init ==
  /\ loaded = FALSE /\ clientType = Undefined /\ wrapped = FALSE
  /\ wrapOpts = NoWrapOptions /\ entryLog = <<>>
  /\ applyState = "idle" /\ stackBefore = <<>> /\ stack = <<>>
  /\ requests = 0
  /\ hpc = "idle" /\ hOrig = NoArgs /\ hArgs = NoArgs /\ hNextArgs = NoArgs
  /\ hNextCalls = 0 /\ hNextOut = Undefined /\ hReturned = Undefined
  /\ hErr = NoError
  /\ apc = "idle" /\ aConfig = NoConfig /\ aContext = NoContext
  /\ aRegionOut = Undefined /\ region = Undefined /\ aNextCalls = 0
  /\ aNextOut = NoResult /\ aNextErr = NoError /\ aSeg = NoSeg /\ segCalls = <<>> /\ aLog = <<>>
  /\ aReturned = NoResult /\ aErr = NoError /\ trace = <<>>

(***************************************************************************)
(* instrumentSmithyClient                                                  *)
(***************************************************************************)
\* wraps without probing the export
instrumentSmithyClientNoProbe(t) ==
  /\ ~loaded
  /\ loaded' = TRUE
  /\ clientType' = t
  /\ wrapped' = TRUE
  /\ wrapOpts' = WrapOptions
  /\ entryLog' = entryLog
  /\ UNCHANGED <<stackVars, requests, hVars, aVars>>

\* t is the type of smithyClientExport.Client
instrumentSmithyClient(t) ==
  /\ ~loaded
  /\ loaded' = TRUE
  /\ clientType' = t
  /\ IF ~isFunction(t)
     THEN /\ entryLog' = Append(entryLog, "Could not find Smithy Client, not instrumenting.")
          /\ wrapped' = FALSE
          /\ wrapOpts' = NoWrapOptions
     ELSE /\ entryLog' = entryLog
          /\ wrapped' = TRUE
          /\ wrapOpts' = WrapOptions
  /\ UNCHANGED <<stackVars, requests, hVars, aVars>>

(***************************************************************************)
(* getPlugin(...).applyToStack                                             *)
(***************************************************************************)
\* clientStack is the stack of a client constructed through the wrapped
\* class; the failAt-th clientStack.add throws (0: none does)
applyToStack(clientStack, failAt) ==
  /\ wrapped
  /\ applyState = "idle"
  /\ stackBefore' = clientStack
  /\ IF failAt = 1
     THEN stack' = clientStack /\ applyState' = "threw"
     ELSE IF failAt = 2
     THEN stack' = Append(clientStack, HeaderEntry) /\ applyState' = "threw"
     ELSE /\ stack' = Append(Append(clientStack, HeaderEntry), DeserializeEntry)
          /\ applyState' = "done"
  /\ UNCHANGED <<entryVars, requests, hVars, aVars>>

(***************************************************************************)
(* headerMiddleware / wrappedHeaderMw                                      *)
(***************************************************************************)
\* up to the await: set the header, call next
wrappedHeaderMw(args) ==
  /\ applyState = "done" /\ Registered("NewRelicHeader")
  /\ hpc \in {"idle", "returned", "threw"}
  /\ requests < MaxRequests
  /\ requests' = requests + 1
  /\ hOrig' = args
  /\ hNextOut' = Undefined
  /\ hReturned' = Undefined
  /\ IF args.shape = "ok"
     THEN /\ hArgs' = [args EXCEPT !.headers = SetHeader(@)]
          /\ hNextArgs' = hArgs'
          /\ hNextCalls' = 1
          /\ hErr' = NoError
          /\ hpc' = "awaitNext"
     ELSE /\ hArgs' = args
          /\ hNextArgs' = NoArgs
          /\ hNextCalls' = 0
          /\ hErr' = "TypeError"
          /\ hpc' = "threw"
  /\ UNCHANGED <<entryVars, stackVars, aVars>>

\* next resolved with r: return it
wrappedHeaderMwNextReturned(r) ==
  /\ hpc = "awaitNext"
  /\ hNextOut' = r
  /\ hReturned' = r
  /\ hpc' = "returned"
  /\ UNCHANGED <<entryVars, stackVars, requests, hOrig, hArgs, hNextArgs,
                 hNextCalls, hErr, aVars>>

\* next rejected with e: nothing catches it
wrappedHeaderMwNextThrew(e) ==
  /\ hpc = "awaitNext"
  /\ hNextOut' = e
  /\ hErr' = e
  /\ hpc' = "threw"
  /\ UNCHANGED <<entryVars, stackVars, requests, hOrig, hArgs, hNextArgs,
                 hNextCalls, hReturned, aVars>>

(***************************************************************************)
(* attrMiddleware / wrappedMiddleware                                      *)
(***************************************************************************)
\* up to the first await: call config.region()
wrappedMiddleware(config, context) ==
  /\ applyState = "done" /\ Registered("NewRelicDeserialize")
  /\ apc \in {"idle", "returned", "threw"}
  /\ requests < MaxRequests
  /\ requests' = requests + 1
  /\ aConfig' = config
  /\ aContext' = context
  /\ aRegionOut' = Undefined
  /\ region' = Undefined
  /\ aNextCalls' = 0
  /\ aNextOut' = NoResult
  /\ aNextErr' = NoError
  /\ aSeg' = NoSeg
  /\ segCalls' = <<>>
  /\ aLog' = <<>>
  /\ aReturned' = NoResult
  /\ aErr' = NoError
  /\ trace' = <<"regionCall">>
  /\ apc' = "awaitRegion"
  /\ UNCHANGED <<entryVars, stackVars, hVars>>

\* does not wait for next: records at once, with no result
wrappedMiddlewareRegionResolvedNoAwait(v) ==
  /\ apc = "awaitRegion"
  /\ aRegionOut' = v
  /\ region' = v
  /\ aNextCalls' = aNextCalls + 1
  /\ segCalls' = <<>>
  /\ aLog' = Append(aLog, "Failed to add AWS attributes to segment")
  /\ trace' = trace \o <<"regionResolved", "nextCall", "recordStart", "recordEnd">>
  /\ apc' = "awaitNext"
  /\ UNCHANGED <<entryVars, stackVars, requests, hVars, aConfig, aContext,
                 aNextOut, aNextErr, aSeg, aReturned, aErr>>

\* config.region() resolved with v: assign it, enter finally, call next
wrappedMiddlewareRegionResolved(v) ==
  /\ apc = "awaitRegion"
  /\ aRegionOut' = v
  /\ region' = v
  /\ aNextCalls' = aNextCalls + 1
  /\ trace' = trace \o <<"regionResolved", "nextCall">>
  /\ apc' = "awaitNext"
  /\ UNCHANGED <<entryVars, stackVars, requests, hVars, aConfig, aContext,
                 aNextOut, aNextErr, aSeg, segCalls, aLog, aReturned, aErr>>

\* no catch block: the region error leaves the middleware
wrappedMiddlewareRegionThrewNoCatch(err) ==
  /\ apc = "awaitRegion"
  /\ aRegionOut' = err
  /\ aErr' = err
  /\ trace' = trace \o <<"regionThrew", "throw">>
  /\ apc' = "threw"
  /\ UNCHANGED <<entryVars, stackVars, requests, hVars, aConfig, aContext,
                 region, aNextCalls, aNextOut, aNextErr, aSeg, segCalls, aLog,
                 aReturned>>

\* config.region() threw err: log it, enter finally, call next
wrappedMiddlewareRegionThrew(err) ==
  /\ apc = "awaitRegion"
  /\ aRegionOut' = err
  /\ aLog' = Append(aLog, "Failed to get the AWS region")
  /\ aNextCalls' = aNextCalls + 1
  /\ trace' = trace \o <<"regionThrew", "nextCall">>
  /\ apc' = "awaitNext"
  /\ UNCHANGED <<entryVars, stackVars, requests, hVars, aConfig, aContext,
                 region, aNextOut, aNextErr, aSeg, segCalls, aReturned, aErr>>

\* next resolved with result: addAwsAttributes, then return result
wrappedMiddlewareNextReturned(result, seg) ==
  /\ apc = "awaitNext"
  /\ aNextOut' = result
  /\ aSeg' = seg
  /\ LET rec == AddAwsAttributes(result, aConfig, region, aContext, seg) IN
       /\ segCalls' = segCalls \o rec.calls
       /\ aLog' = IF rec.logged
                  THEN Append(aLog, "Failed to add AWS attributes to segment")
                  ELSE aLog
       /\ IF rec.thrown = NoError
          THEN /\ aReturned' = result
               /\ aErr' = aErr
               /\ trace' = trace \o <<"nextResult", "recordStart", "recordEnd", "return">>
               /\ apc' = "returned"
          ELSE /\ aReturned' = aReturned
               /\ aErr' = rec.thrown
               /\ trace' = trace \o <<"nextResult", "recordStart", "throw">>
               /\ apc' = "threw"
  /\ UNCHANGED <<entryVars, stackVars, requests, hVars, aConfig, aContext,
                 aRegionOut, region, aNextCalls, aNextErr>>

\* swallows the downstream error
wrappedMiddlewareNextThrewSwallow(e) ==
  /\ apc = "awaitNext"
  /\ aNextErr' = e
  /\ aErr' = aErr
  /\ aLog' = Append(aLog, "Failed to add AWS attributes to segment")
  /\ trace' = trace \o <<"nextThrew", "return">>
  /\ apc' = "returned"
  /\ UNCHANGED <<entryVars, stackVars, requests, hVars, aConfig, aContext,
                 aRegionOut, region, aNextCalls, aNextOut, aSeg, segCalls,
                 aReturned>>

\* next rejected with e inside finally: e leaves the middleware
wrappedMiddlewareNextThrew(e) ==
  /\ apc = "awaitNext"
  /\ aNextErr' = e
  /\ aErr' = e
  /\ trace' = trace \o <<"nextThrew", "throw">>
  /\ apc' = "threw"
  /\ UNCHANGED <<entryVars, stackVars, requests, hVars, aConfig, aContext,
                 aRegionOut, region, aNextCalls, aNextOut, aSeg, segCalls,
                 aLog, aReturned>>

(***************************************************************************)
(* Specification                                                           *)
(***************************************************************************)
Next ==
  \/ \E t \in ClientTypes : instrumentSmithyClient(t)
  \/ \E s \in HostStacks, f \in 0..2 : applyToStack(s, f)
  \/ \E a \in HeaderArgs : wrappedHeaderMw(a)
  \/ \E r \in HeaderResults : wrappedHeaderMwNextReturned(r)
  \/ \E e \in NextErrors : wrappedHeaderMwNextThrew(e)
  \/ \E c \in Configs, x \in Contexts : wrappedMiddleware(c, x)
  \/ \E v \in RegionVals : wrappedMiddlewareRegionResolved(v)
  \/ \E e \in RegionErrors : wrappedMiddlewareRegionThrew(e)
  \/ \E r \in Results, g \in SegBehaviours : wrappedMiddlewareNextReturned(r, g)
  \/ \E e \in NextErrors : wrappedMiddlewareNextThrew(e)

Spec == Init /\ [][Next]_vars

(***************************************************************************)
(* Properties                                                              *)
(***************************************************************************)
RecordFailureMsg == "Failed to add AWS attributes to segment"
RegionFailureMsg == "Failed to get the AWS region"

Logged(msg) == \E i \in 1..Len(aLog) : aLog[i] = msg

\* addAwsAttributes ran in this invocation
Recorded == aNextOut.shape # "none"

\* addAwsAttributes ran, found a segment, and nothing in it failed
RecordedAll ==
  /\ apc = "returned"
  /\ Recorded
  /\ aSeg.lookup = "found"
  /\ ~Logged(RecordFailureMsg)

\* the value the k-th attribute is taken from
Underlying(k) ==
  CASE k = 1 -> aContext.commandName
    [] k = 2 -> aNextOut.headers[RequestIdKey]
    [] k = 3 -> aConfig.serviceId
    [] k = 4 -> region

AwsKeys == <<"aws.operation", "aws.requestId", "aws.service", "aws.region">>

Occurs(e) == \E i \in 1..Len(trace) : trace[i] = e
Precedes(S, e) ==
  \A j \in 1..Len(trace) : trace[j] = e => \E i \in 1..(j - 1) : trace[i] \in S

\* C1: in every invocation of the attribute middleware, whether
\* config.region() resolves or throws, next is called exactly once, no
\* region error leaves the middleware, and what the middleware returns is
\* the result next returned.
C1_NextOnceResultUnchanged ==
  /\ apc = "awaitRegion" => aNextCalls = 0
  /\ apc \in {"awaitNext", "returned", "threw"} => aNextCalls = 1
  /\ aErr \notin RegionErrors
  /\ apc = "threw" => aErr = aNextErr /\ aNextErr \in NextErrors
  /\ apc = "returned" => aErr = NoError /\ aNextOut \in Results /\ aReturned = aNextOut

C1_Witness ==
  /\ apc = "returned"
  /\ aRegionOut \in RegionErrors
  /\ aNextCalls = 1
  /\ aReturned = aNextOut
  /\ aReturned.shape = "full"

\* C2 as stated: when a segment is found and recording completes, exactly
\* the four aws.* attributes are recorded, each the underlying value, and
\* each "Unknown" exactly when the underlying value is absent (undefined).
C2_UnknownExactlyWhenAbsent ==
  RecordedAll =>
    /\ Len(segCalls) = 4
    /\ \A k \in 1..4 :
         /\ segCalls[k][1] = AwsKeys[k]
         /\ (segCalls[k][2] = UNKNOWN) <=> (Underlying(k) = Undefined)
         /\ Underlying(k) # Undefined => segCalls[k][2] = Underlying(k)

\* C2 amended: when a segment is found and recording completes, exactly the
\* four aws.* attributes are recorded in order, each the underlying value
\* when that value is truthy and "Unknown" when it is absent or the empty
\* string; aws.region is "Unknown" whenever region resolution failed.
C2_UnknownWhenFalsy ==
  RecordedAll =>
    /\ Len(segCalls) = 4
    /\ \A k \in 1..4 :
         /\ segCalls[k][1] = AwsKeys[k]
         /\ segCalls[k][2] = IF Underlying(k) \in {Undefined, ""}
                             THEN UNKNOWN ELSE Underlying(k)
    /\ aRegionOut \in RegionErrors => segCalls[4][2] = UNKNOWN

C2_Witness ==
  /\ RecordedAll
  /\ aRegionOut \in RegionErrors
  /\ aConfig.serviceId = ""
  /\ aContext.commandName = "GetItem"
  /\ aNextOut.headers[RequestIdKey] = "abc-123"
  /\ segCalls = << <<"aws.operation", "GetItem">>, <<"aws.requestId", "abc-123">>,
                   <<"aws.service", UNKNOWN>>, <<"aws.region", UNKNOWN>> >>

\* C3: when the header middleware calls next, the request's headers are the
\* original headers with x-new-relic-disable-dt set to "true" and every
\* other entry kept; the middleware returns exactly what next returned.
C3_HeaderSetOthersKept ==
  /\ hNextCalls = 1 =>
       /\ hOrig.shape = "ok"
       /\ hNextArgs.shape = "ok"
       /\ hNextArgs.headers[DisableDtKey] = "true"
       /\ \A k \in ReqKeys \ {DisableDtKey} :
            hNextArgs.headers[k] = hOrig.headers[k]
       /\ hArgs = hNextArgs
  /\ hpc = "returned" => hNextCalls = 1 /\ hNextOut \in HeaderResults /\ hReturned = hNextOut

C3_Witness ==
  /\ hpc = "returned"
  /\ hOrig.headers["host"] = "aws.example"
  /\ hOrig.headers[DisableDtKey] = "false"
  /\ hNextArgs.headers["host"] = "aws.example"
  /\ hReturned = "result-2"

\* C4: if shim.getSegment throws or returns nothing, no exception leaves
\* addAwsAttributes: a diagnostic is logged, and the attribute middleware
\* returns next's result unchanged.
C4_SegmentLookupFailureContained ==
  (Recorded /\ aSeg.lookup \in {"throws", "none"}) =>
    /\ apc = "returned"
    /\ aErr = NoError
    /\ Logged(RecordFailureMsg)
    /\ aReturned = aNextOut

C4_Witness ==
  /\ Recorded
  /\ aSeg.lookup = "throws"
  /\ aNextOut.shape = "full"
  /\ apc = "returned"
  /\ aReturned = aNextOut

\* the first statement of addAwsAttributes that fails, by the inputs of this
\* invocation (5: none)
FailStep ==
  IF aNextOut.shape \in {"undefined", "nobody"} \/ aSeg.lookup # "found" THEN 0
  ELSE IF aSeg.failAt = 1 THEN 1
  ELSE IF aSeg.failAt = 2 \/ aNextOut.shape = "noheaders" THEN 2
  ELSE IF aSeg.failAt \in {3, 4} THEN aSeg.failAt
  ELSE 5

\* C5 as stated: whenever segment lookup or any one of the attribute
\* recording steps fails, the failure is logged and none of the four aws.*
\* attributes is on the segment afterwards.
C5_AllOrNothing ==
  (Recorded /\ FailStep < 5) =>
    /\ Logged(RecordFailureMsg)
    /\ segCalls = <<>>

\* C5 amended: whenever segment lookup or an attribute recording step fails,
\* the failure is logged and nothing escapes; the attributes whose
\* addAttribute call completed before the failing step stay on the segment
\* (none when the lookup itself failed), and no later one is recorded.
C5_PrefixRecorded ==
  (Recorded /\ FailStep < 5) =>
    /\ Logged(RecordFailureMsg)
    /\ apc = "returned" /\ aErr = NoError
    /\ Len(segCalls) = (IF FailStep = 0 THEN 0 ELSE FailStep - 1)
    /\ \A k \in 1..Len(segCalls) : segCalls[k][1] = AwsKeys[k]

C5_Witness ==
  /\ Recorded
  /\ aSeg.lookup = "found"
  /\ aSeg.failAt = 3
  /\ aNextOut.shape = "full"
  /\ Logged(RecordFailureMsg)
  /\ Len(segCalls) = 2
  /\ segCalls[1][1] = "aws.operation"
  /\ segCalls[2][1] = "aws.requestId"

\* C6 as stated: a response that carries the request id under another
\* casing of x-amzn-requestid (X-Amzn-RequestId) has it recorded as
\* aws.requestId.
C6_CaseInsensitive ==
  (RecordedAll /\ ~Truthy(aNextOut.headers[RequestIdKey])
               /\ Truthy(aNextOut.headers[RequestIdKeyMixed])) =>
    /\ Len(segCalls) = 4
    /\ segCalls[2] = <<"aws.requestId", aNextOut.headers[RequestIdKeyMixed]>>

\* C6 amended: the request id is read by the exact key x-amzn-requestid; a
\* header under another casing is not consulted, so a response carrying
\* the id only as X-Amzn-RequestId gets aws.requestId = "Unknown".
C6_ExactKey ==
  RecordedAll =>
    /\ Len(segCalls) = 4
    /\ Truthy(aNextOut.headers[RequestIdKey]) =>
         segCalls[2] = <<"aws.requestId", aNextOut.headers[RequestIdKey]>>
    /\ ~Truthy(aNextOut.headers[RequestIdKey]) =>
         segCalls[2] = <<"aws.requestId", UNKNOWN>>

C6_Witness ==
  /\ RecordedAll
  /\ aNextOut.headers[RequestIdKey] = Undefined
  /\ aNextOut.headers[RequestIdKeyMixed] = "abc-123"
  /\ segCalls[2] = <<"aws.requestId", UNKNOWN>>

C8_WrapIffFunction ==
  loaded =>
    /\ wrapped <=> clientType = "function"
    /\ wrapped => wrapOpts = [post |-> "postClientConstructor", es6 |-> TRUE]
                  /\ entryLog = <<>>
    /\ ~wrapped => wrapOpts = NoWrapOptions
                   /\ entryLog = <<"Could not find Smithy Client, not instrumenting.">>
                   /\ applyState = "idle"

C8_Witness ==
  /\ loaded
  /\ clientType = "object"
  /\ ~wrapped
  /\ Len(entryLog) = 1

\* C9: in the attribute middleware the region attempt completes before next
\* is called, next is called once, attribute recording starts only after
\* next's result is available, and the middleware returns only after
\* recording has finished; nothing is recorded without a next result.
C9_Ordering ==
  /\ Precedes({"regionResolved", "regionThrew"}, "nextCall")
  /\ Cardinality({j \in 1..Len(trace) : trace[j] = "nextCall"}) <= 1
  /\ Precedes({"nextCall"}, "nextResult")
  /\ Precedes({"nextResult"}, "recordStart")
  /\ Precedes({"recordStart"}, "recordEnd")
  /\ Precedes({"recordEnd"}, "return")
  /\ segCalls # <<>> => Occurs("nextResult")
  /\ apc = "returned" => Occurs("nextCall") /\ Occurs("recordEnd")

C9_Witness ==
  /\ apc = "returned"
  /\ segCalls # <<>>
  /\ trace = <<"regionCall", "regionThrew", "nextCall", "nextResult",
               "recordStart", "recordEnd", "return">>

\* C10: an error of the next handler leaves the header middleware and the
\* attribute middleware as the same error (in the attribute middleware
\* whether the region resolved or threw, and with no attribute recorded);
\* a malformed request makes the header middleware throw without calling
\* next.
C10_OtherFailuresPropagate ==
  /\ hNextOut \in NextErrors => hpc = "threw" /\ hErr = hNextOut
  /\ aNextErr # NoError =>
       /\ apc = "threw"
       /\ aErr = aNextErr
       /\ segCalls = <<>>
       /\ ~Occurs("recordStart")
  /\ (hpc # "idle" /\ hOrig.shape \in {"norequest", "noheaders"}) =>
       /\ hpc = "threw"
       /\ hErr = "TypeError"
       /\ hNextCalls = 0

C10_Witness ==
  /\ apc = "threw"
  /\ aRegionOut \in RegionErrors
  /\ aErr = "Error:denied"
  /\ hpc = "threw"
  /\ hOrig.shape = "noheaders"
  /\ hNextCalls = 0

====
